---- MODULE Spec2Model ----
(***************************************************************************)
(* Read/write routing layer of the demo backend: the two pg pools built by *)
(* src/config/database.ts, getDatabase, checkDatabaseHealth,               *)
(* closeDatabaseConnections, the /health endpoints of src/index.ts and the *)
(* /posts route handlers that run statements on the pools.                 *)
(***************************************************************************)
EXTENDS Integers, Sequences, FiniteSets, TLC

(* ---------------------------------------------------------------------- *)
(* Bounds of the model                                                     *)
(* ---------------------------------------------------------------------- *)
\* size of each pool (stands for the default max of createPool)
PoolMax == 1
\* number of request slots served concurrently
MaxSlots == 2
\* total number of /posts requests accepted in one run
MaxRequests == 2
\* number of termination signals delivered in one run
MaxSignals == 2
\* number of times the entry module is evaluated (startServer is called)
MaxStarts == 2

(* ---------------------------------------------------------------------- *)
(* Configuration                                                           *)
(* ---------------------------------------------------------------------- *)
DefaultPrimaryPort == 5000
DefaultReplicaPort == 5001
DefaultHost == "10.100.0.20"

\* values of DB_PRIMARY_PORT / DB_REPLICA_PORT in process.env
EnvPorts == {"unset", "5000"}
\* the same with values that are not TCP ports
EnvPortsAny == {"unset", "5000", "abc", "70000"}
Ports == {5000, 5001}

\* Number(v) of an environment value; 0 stands for NaN (unset, not a number)
ToNumber(v) ==
    CASE v = "5000" -> 5000
      [] v = "70000" -> 70000
      [] OTHER -> 0

ConnIds == 1..PoolMax

\* Number(process.env.X) || dflt
PortOrDefault(envPort, dflt) == IF envPort = 0 THEN dflt ELSE envPort

primaryConfig(envPort) ==
    [host |-> DefaultHost, port |-> PortOrDefault(envPort, DefaultPrimaryPort)]

replicaConfig(envPort) ==
    [host |-> DefaultHost, port |-> PortOrDefault(envPort, DefaultReplicaPort)]

\* new Pool(poolConfig): a fresh pool object appended to the object heap;
\* the reference of the new pool is the length of the returned heap
createPool_shared(config, heap) ==
    IF \E i \in 1..Len(heap) : heap[i].config = config
    THEN heap
    ELSE Append(heap, [config |-> config, max |-> PoolMax, ending |-> FALSE, ended |-> FALSE])

createPool(config, heap) ==
    Append(heap, [config |-> config, max |-> PoolMax, ending |-> FALSE, ended |-> FALSE])

\* drizzle(pool, { schema }): a fresh handle object over the pool
drizzle(pool, oid) == [oid |-> oid, client |-> pool]

VARIABLES
    pools,        \* heap of pool objects
    primaryPool,  \* reference of the primary pool
    replicaPool,  \* reference of the replica pool
    dbPrimary,    \* drizzle handle over primaryPool
    dbReplica,    \* drizzle handle over replicaPool
    endpointUp,   \* port -> whether the database endpoint answers
    idle,         \* pool reference -> idle clients of the pool
    busy,         \* pool reference -> checked-out clients of the pool
    hc,           \* the health request being served
    cleanReport,  \* report of the last health call, while no endpoint changed since it began
    quietReport,  \* same, while moreover no pool was closed and no checkout timed out
    lastSel,      \* the last getDatabase call: argument and result
    selLog,       \* isWrite -> handles getDatabase ever returned for it
    req,          \* slot -> the /posts request being served
    nReq,         \* number of /posts requests accepted so far
    posts,        \* post id -> author of the stored post
    users,        \* ids of the rows of the users table
    env,          \* process.env: DB_PRIMARY_PORT and DB_REPLICA_PORT
    entry,        \* the entry point (index.ts) the process runs
    listeners,    \* signals that have a listener registered
    closes,       \* the calls of closeDatabaseConnections, in order
    srv,          \* the HTTP servers of the process and the global server slot
    nSig,         \* number of signals delivered
    proc          \* the process: running or exited with a code

vars == <<pools, primaryPool, replicaPool, dbPrimary, dbReplica, endpointUp,
          idle, busy, hc, cleanReport, quietReport, lastSel, selLog,
          req, nReq, posts, users, env, entry, listeners, closes, srv, nSig, proc>>

regVars == <<pools, primaryPool, replicaPool, dbPrimary, dbReplica>>
connVars == <<idle, busy>>
healthVars == <<hc, cleanReport, quietReport>>
selVars == <<lastSel, selLog>>
reqVars == <<req, nReq, posts, users>>
bootVars == <<env, entry>>
procVars == <<bootVars, listeners, closes, srv, nSig, proc>>

(* ---------------------------------------------------------------------- *)
(* The HTTP server                                                         *)
(* ---------------------------------------------------------------------- *)
\* requests are accepted while the process runs and a server listens
Accepting == proc.state = "running" /\ srv.listening /= {}

\* the server state when the entry module has been evaluated up to its
\* listen: "full" and "simple" call app.listen at module level, "hmr" only
\* defines startServer
ServerAtLoad(e) ==
    IF e = "hmr"
    THEN [slot |-> {}, created |-> 0, listening |-> {}, pairs |-> 0, calls |-> 0]
    ELSE [slot |-> {}, created |-> 1, listening |-> {1}, pairs |-> 1, calls |-> 0]

\* startServer(): with a server in the global slot nothing is started;
\* else app.listen creates a server, which is stored in the slot, and
\* handleExit is registered for SIGINT and SIGTERM
startServer_unguarded(sv) ==
    [sv EXCEPT !.slot = {sv.created + 1}, !.created = @ + 1,
               !.listening = @ \cup {sv.created + 1}, !.pairs = @ + 1, !.calls = @ + 1]

startServer(sv) ==
    IF sv.slot /= {}
    THEN [sv EXCEPT !.calls = @ + 1]
    ELSE [sv EXCEPT !.slot = {sv.created + 1}, !.created = @ + 1,
                    !.listening = @ \cup {sv.created + 1}, !.pairs = @ + 1, !.calls = @ + 1]

\* shutdown() of "hmr" stops the server of the global slot before it closes
\* the pools; the other entry points leave their server listening
ServerAfterShutdown(sv) ==
    IF entry = "hmr" THEN [sv EXCEPT !.listening = @ \ sv.slot] ELSE sv

(* ---------------------------------------------------------------------- *)
(* getDatabase                                                             *)
(* ---------------------------------------------------------------------- *)
PoolPort(p) == pools[p].config.port

getDatabase_swapped(isWrite) == IF isWrite THEN dbReplica ELSE dbPrimary

getDatabase_failover(isWrite) ==
    IF isWrite \/ ~endpointUp[PoolPort(replicaPool)] THEN dbPrimary ELSE dbReplica

getDatabase(isWrite) == IF isWrite THEN dbPrimary ELSE dbReplica

(* ---------------------------------------------------------------------- *)
(* pg pool: checkout and release of clients (pool.query)                   *)
(* ---------------------------------------------------------------------- *)
Slots == 1..MaxSlots

Min(S) == CHOOSE x \in S : \A y \in S : x <= y

\* no idle client and no room for a new one: pool.query has to queue
Saturated(idl, bsy, p) == idl[p] = {} /\ Cardinality(bsy[p]) >= pools[p].max

\* the clients a checkout may hand out: an idle one, else a new one
PickClient(idl, bsy, p) ==
    IF idl[p] /= {} THEN idl[p] ELSE {Min(ConnIds \ (idl[p] \cup bsy[p]))}

\* pool.query(...) at the moment of the call: rejected when end() was
\* called on the pool, queued when the pool is saturated, else running on
\* a checked-out client
IssueQuery_ignoresEnd(idl, bsy, p) ==
    IF Saturated(idl, bsy, p) THEN {[q |-> "wait", conn |-> 0]}
    ELSE {[q |-> "run", conn |-> c] : c \in PickClient(idl, bsy, p)}

IssueQuery(idl, bsy, p) ==
    IF pools[p].ending THEN {[q |-> "rejected", conn |-> 0]}
    ELSE IF Saturated(idl, bsy, p) THEN {[q |-> "wait", conn |-> 0]}
    ELSE {[q |-> "run", conn |-> c] : c \in PickClient(idl, bsy, p)}

\* the idle list and the checked-out set after a checkout of client c
TakeIdle(f, p, c) == IF c = 0 THEN f ELSE [f EXCEPT ![p] = @ \ {c}]
PutBusy(f, p, c) == IF c = 0 THEN f ELSE [f EXCEPT ![p] = @ \cup {c}]

\* outcome of a query that was issued with state q on pool p
Reachable(p) == PoolPort(p) \in DOMAIN endpointUp /\ endpointUp[PoolPort(p)]

QueryOk(p, q) == q = "run" /\ Reachable(p)

SetConn(log, c) == IF log = <<>> THEN log ELSE [log EXCEPT ![Len(log)].conn = c]

\* the pool each party is querying
StmtDb_byStatementKind(route, step) ==
    IF route \in {"GET /posts", "GET /posts/:id"} THEN dbReplica
    ELSE IF route \in {"PATCH /posts/:id", "DELETE /posts/:id"} /\ step = 1 THEN dbReplica
    ELSE dbPrimary

StmtDb_usersReadPrimary(route, step) ==
    IF route \in {"GET /posts", "GET /posts/:id", "GET /users"} THEN dbReplica ELSE dbPrimary

\* the handle each statement of a /posts or /users handler is built on:
\* step is the position of the statement in the handler
StmtDb(route, step) ==
    IF route \in {"GET /posts", "GET /posts/:id", "GET /users", "GET /users/:id"}
    THEN dbReplica ELSE dbPrimary

\* the handle the session lookups of lib/auth.ts are built on
SessionDb == dbPrimary

\* the pool of the statement slot s awaits: step 0 is the session lookup
ReqPool(s) ==
    IF req[s].step = 0 THEN SessionDb.client ELSE StmtDb(req[s].route, req[s].step).client
\* a queued probe is rejected after connectionTimeoutMillis
HcPool == IF hc.pc = "primary" THEN primaryPool ELSE replicaPool

\* the queries queued on pool p: request slots, and 0 for the health probe
Waiters(p) ==
    {s \in Slots : req[s].pc = "stmt" /\ req[s].q = "wait" /\ ReqPool(s) = p}
    \cup (IF hc.pc \in {"primary", "replica"} /\ hc.q = "wait" /\ HcPool = p THEN {0} ELSE {})

\* pool.query releases its client when the query succeeded and when it threw
ReleasesClient_onSuccess(ok) == ok

ReleasesClient(ok) == TRUE

\* a query that ran on client c of pool p finished with outcome ok and the
\* client is released: it is destroyed when the pool is ending, handed to a
\* queued query when there is one (after an error the pool replaces it by a
\* new client), put on the idle list when the query succeeded
Released(p, c, ok) ==
    IF c = 0 \/ ~ReleasesClient(ok)
    THEN {[req |-> req, hc |-> hc, idle |-> idle, busy |-> busy]}
    ELSE IF pools[p].ending
    THEN {[req |-> req, hc |-> hc, idle |-> idle, busy |-> [busy EXCEPT ![p] = @ \ {c}]]}
    ELSE IF Waiters(p) = {}
    THEN {[req |-> req, hc |-> hc,
           idle |-> IF ok THEN [idle EXCEPT ![p] = @ \cup {c}] ELSE idle,
           busy |-> [busy EXCEPT ![p] = @ \ {c}]]}
    ELSE {[req  |-> IF w = 0 THEN req
                    ELSE [req EXCEPT ![w].q = "run", ![w].conn = c, ![w].log = SetConn(@, c)],
           hc   |-> IF w = 0 THEN [hc EXCEPT !.q = "run", !.conn = c] ELSE hc,
           idle |-> idle,
           busy |-> busy] : w \in Waiters(p)}

(* ---------------------------------------------------------------------- *)
(* checkDatabaseHealth and the health endpoints                            *)
(* ---------------------------------------------------------------------- *)
HealthRoutes == {"/health", "/health/db"}

NoResponse == [status |-> 0, success |-> FALSE, primary |-> "absent", replica |-> "absent"]

Connected(b) == IF b THEN "connected" ELSE "disconnected"

\* GET /health: res is what awaiting checkDatabaseHealth() produced; the
\* fields primary and replica are the per-pool detail of the body
healthRoute_always200(res) ==
    IF res.threw
    THEN [status |-> 503, success |-> FALSE, primary |-> "absent", replica |-> "absent"]
    ELSE LET isHealthy == res.report.primary /\ res.report.replica
         IN  [status  |-> 200,
              success |-> isHealthy,
              primary |-> Connected(res.report.primary),
              replica |-> Connected(res.report.replica)]

healthRoute(res) ==
    IF res.threw
    THEN [status |-> 503, success |-> FALSE, primary |-> "absent", replica |-> "absent"]
    ELSE LET isHealthy == res.report.primary /\ res.report.replica
         IN  [status  |-> IF isHealthy THEN 200 ELSE 503,
              success |-> isHealthy,
              primary |-> Connected(res.report.primary),
              replica |-> Connected(res.report.replica)]

\* GET /health/db: status and healthy of each pool carry the same flag
healthDbRoute(res) ==
    IF res.threw
    THEN [status |-> 503, success |-> FALSE, primary |-> "absent", replica |-> "absent"]
    ELSE LET isHealthy == res.report.primary /\ res.report.replica
         IN  [status  |-> IF isHealthy THEN 200 ELSE 503,
              success |-> isHealthy,
              primary |-> Connected(res.report.primary),
              replica |-> Connected(res.report.replica)]

HealthHandler(route, res) ==
    IF route = "/health" THEN healthRoute(res) ELSE healthDbRoute(res)

\* results after the try/catch around the primary probe
AfterPrimaryProbe(results, ok) == [results EXCEPT !.primary = ok]

\* results after the try/catch around the replica probe
AfterReplicaProbe_masked(results, ok) ==
    [results EXCEPT !.replica = ok /\ results.primary]

AfterReplicaProbe_waitingCount(results, ok) ==
    [results EXCEPT !.replica = (Waiters(replicaPool) = {})]

AfterReplicaProbe(results, ok) == [results EXCEPT !.replica = ok]

\* whether checkDatabaseHealth goes on to the replica probe after the
\* primary probe settled with outcome ok: the catch block only logs
ProbesReplicaAfter_returnOnFailure(ok) == ok

ProbesReplicaAfter(ok) == TRUE

\* the process after the catch block of a failed probe: the error is only
\* logged
AfterProbeFailure_exit == [state |-> "exited", code |-> 1]

AfterProbeFailure == proc

HcIdle ==
    [pc |-> "idle", route |-> "/health", results |-> [primary |-> FALSE, replica |-> FALSE],
     q |-> "none", conn |-> 0, events |-> <<>>, okP |-> FALSE, okR |-> FALSE,
     clean |-> FALSE, quiet |-> FALSE, closing |-> FALSE, response |-> NoResponse]

\* a health request arrives: the handler calls checkDatabaseHealth(), which
\* initialises results and issues SELECT 1 on primaryPool
HealthRequest(route) ==
    /\ Accepting
    /\ hc.pc = "idle"
    /\ \E iq \in IssueQuery(idle, busy, primaryPool) :
         /\ hc' = [HcIdle EXCEPT !.pc = "primary", !.route = route,
                                 !.q = iq.q, !.conn = iq.conn,
                                 !.events = <<"issuePrimary">>,
                                 !.clean = TRUE, !.quiet = TRUE,
                                 !.closing = (closes /= <<>>)]
         /\ idle' = TakeIdle(idle, primaryPool, iq.conn)
         /\ busy' = PutBusy(busy, primaryPool, iq.conn)
    /\ UNCHANGED <<regVars, endpointUp, cleanReport, quietReport, selVars, reqVars, procVars>>

\* a queued probe is rejected after connectionTimeoutMillis
ProbeTimeout ==
    /\ proc.state = "running"
    /\ hc.pc \in {"primary", "replica"}
    /\ hc.q = "wait"
    /\ hc' = [hc EXCEPT !.q = "rejected", !.quiet = FALSE]
    /\ quietReport' = {}
    /\ UNCHANGED <<regVars, endpointUp, connVars, cleanReport, selVars, reqVars, procVars>>

\* the primary probe settles: the first try/catch finishes and, in the same
\* turn, SELECT 1 is issued on replicaPool
PrimaryProbeSettled ==
    /\ proc.state = "running"
    /\ hc.pc = "primary"
    /\ hc.q \in {"run", "rejected"}
    /\ LET ok  == QueryOk(primaryPool, hc.q)
           res == AfterPrimaryProbe(hc.results, ok)
       IN  \E st \in Released(primaryPool, hc.conn, ok) :
             /\ req' = st.req
             /\ proc' = IF ok THEN proc ELSE AfterProbeFailure
             /\ IF ProbesReplicaAfter(ok)
                THEN \E iq \in IssueQuery(st.idle, st.busy, replicaPool) :
                       /\ hc' = [hc EXCEPT !.pc = "replica", !.results = res, !.okP = ok,
                                           !.q = iq.q, !.conn = iq.conn,
                                           !.events = @ \o <<"settlePrimary", "issueReplica">>]
                       /\ idle' = TakeIdle(st.idle, replicaPool, iq.conn)
                       /\ busy' = PutBusy(st.busy, replicaPool, iq.conn)
                ELSE /\ hc' = [hc EXCEPT !.pc = "done", !.results = res, !.okP = ok,
                                         !.q = "none", !.conn = 0,
                                         !.events = @ \o <<"settlePrimary">>,
                                         !.response = HealthHandler(hc.route, [threw |-> FALSE, report |-> res])]
                     /\ idle' = st.idle
                     /\ busy' = st.busy
    /\ UNCHANGED <<regVars, endpointUp, cleanReport, quietReport, selVars, nReq, posts, users,
                   bootVars, listeners, closes, srv, nSig>>

\* the replica probe settles: the second try/catch finishes,
\* checkDatabaseHealth returns results and the handler builds the response
ReplicaProbeSettled ==
    /\ proc.state = "running"
    /\ hc.pc = "replica"
    /\ hc.q \in {"run", "rejected"}
    /\ LET ok  == QueryOk(replicaPool, hc.q)
           res == AfterReplicaProbe(hc.results, ok)
       IN  \E st \in Released(replicaPool, hc.conn, ok) :
             /\ req' = st.req
             /\ proc' = IF ok THEN proc ELSE AfterProbeFailure
             /\ hc' = [hc EXCEPT !.pc = "done", !.results = res, !.okR = ok,
                                 !.q = "none", !.conn = 0,
                                 !.events = @ \o <<"settleReplica">>,
                                 !.response = HealthHandler(hc.route, [threw |-> FALSE, report |-> res])]
             /\ idle' = st.idle
             /\ busy' = st.busy
    /\ UNCHANGED <<regVars, endpointUp, cleanReport, quietReport, selVars, nReq, posts, users,
                   bootVars, listeners, closes, srv, nSig>>

\* the response of the health request is sent
HealthRespond ==
    /\ proc.state = "running"
    /\ hc.pc = "done"
    /\ hc' = HcIdle
    /\ cleanReport' = IF hc.clean THEN {hc.results} ELSE {}
    /\ quietReport' = IF hc.quiet THEN {hc.results} ELSE {}
    /\ UNCHANGED <<regVars, endpointUp, connVars, selVars, reqVars, procVars>>

(* ---------------------------------------------------------------------- *)
(* Environment: a database endpoint goes down or comes back                *)
(* ---------------------------------------------------------------------- *)
EndpointChange(port) ==
    /\ proc.state = "running"
    /\ endpointUp' = [endpointUp EXCEPT ![port] = ~@]
    /\ hc' = [hc EXCEPT !.clean = FALSE, !.quiet = FALSE]
    /\ cleanReport' = {}
    /\ quietReport' = {}
    /\ UNCHANGED <<regVars, connVars, selVars, reqVars, procVars>>

(* ---------------------------------------------------------------------- *)
(* A caller asks the registry for a handle                                 *)
(* ---------------------------------------------------------------------- *)
GetDatabaseCall(isWrite) ==
    /\ proc.state = "running"
    /\ lastSel' = {[arg |-> isWrite, result |-> getDatabase(isWrite),
                     repeated |-> selLog[isWrite] /= {}]}
    /\ selLog' = [selLog EXCEPT ![isWrite] = @ \cup {getDatabase(isWrite)}]
    /\ UNCHANGED <<regVars, endpointUp, connVars, healthVars, reqVars, procVars>>

(* ---------------------------------------------------------------------- *)
(* /posts route handlers                                                   *)
(* ---------------------------------------------------------------------- *)
Users == {"u1", "u2"}
NoPost == "nopost"
ThePost == "p1"
Routes == {"GET /posts", "GET /posts/:id", "POST /posts",
           "PATCH /posts/:id", "DELETE /posts/:id"}

\* status set in the catch block of each handler (GET /posts sets none)
CatchStatus(route) ==
    CASE route = "GET /posts"     -> 200
      [] route = "GET /posts/:id" -> 500
      [] OTHER                    -> 400

ReqFree ==
    [pc |-> "free", route |-> "GET /posts", user |-> "u1", id |-> "u1",
     cred |-> "u1", sess |-> {}, step |-> 0,
     q |-> "none", conn |-> 0, log |-> <<>>,
     status |-> 0, success |-> FALSE, data |-> "none"]

\* a request passes the auth middleware with user u and its handler runs
\* up to its first await: the first statement is issued
ReqArrive(s, route, u) ==
    /\ Accepting
    /\ nReq < MaxRequests
    /\ req[s].pc = "free"
    /\ \A t \in Slots : t < s => req[t].pc /= "free"
    /\ LET p == StmtDb(route, 1).client
       IN  \E iq \in IssueQuery(idle, busy, p) :
             /\ req' = [req EXCEPT ![s] =
                          [ReqFree EXCEPT !.pc = "stmt", !.route = route, !.user = u,
                                          !.step = 1, !.q = iq.q, !.conn = iq.conn,
                                          !.log = <<[pool |-> p, conn |-> iq.conn]>>]]
             /\ idle' = TakeIdle(idle, p, iq.conn)
             /\ busy' = PutBusy(busy, p, iq.conn)
    /\ nReq' = nReq + 1
    /\ UNCHANGED <<regVars, endpointUp, healthVars, selVars, posts, users, procVars>>

\* a queued statement is rejected after connectionTimeoutMillis
ReqTimeout(s) ==
    /\ proc.state = "running"
    /\ req[s].pc = "stmt"
    /\ req[s].q = "wait"
    /\ req' = [req EXCEPT ![s].q = "rejected"]
    /\ UNCHANGED <<regVars, endpointUp, connVars, healthVars, selVars, nReq, posts, users, procVars>>

Respond(r, status, success, data) ==
    [r EXCEPT !.pc = "done", !.q = "none", !.conn = 0,
              !.status = status, !.success = success, !.data = data]

\* the ownership check of PATCH and DELETE /posts/:id on the row the
\* SELECT returned: the post exists and existingPost.authorId is user.id
OwnsPost_any(row, user) == row /= NoPost

OwnsPost(row, user) == row = user

\* the awaited statement of slot s settles and the handler runs on to its
\* next await or to its return
StmtSettled(s) ==
    /\ proc.state = "running"
    /\ req[s].route \in Routes
    /\ req[s].pc = "stmt"
    /\ req[s].step > 0
    /\ req[s].q \in {"run", "rejected"}
    /\ LET r   == req[s]
           p   == ReqPool(s)
           ok  == QueryOk(p, r.q)
           row == posts[ThePost]
       IN  \E st \in Released(p, r.conn, ok) :
             /\ hc' = st.hc
             /\ IF ok /\ r.route \in {"PATCH /posts/:id", "DELETE /posts/:id"}
                      /\ r.step = 1 /\ OwnsPost(row, r.user)
                THEN \* the ownership check passed: the write is issued
                     LET p2 == StmtDb(r.route, 2).client
                     IN  \E iq \in IssueQuery(st.idle, st.busy, p2) :
                           /\ req' = [st.req EXCEPT ![s].step = 2, ![s].q = iq.q,
                                                    ![s].conn = iq.conn,
                                                    ![s].log = Append(@, [pool |-> p2, conn |-> iq.conn])]
                           /\ idle' = TakeIdle(st.idle, p2, iq.conn)
                           /\ busy' = PutBusy(st.busy, p2, iq.conn)
                           /\ UNCHANGED posts
                ELSE /\ idle' = st.idle
                     /\ busy' = st.busy
                     /\ req' = [st.req EXCEPT ![s] =
                          IF ~ok THEN Respond(r, CatchStatus(r.route), FALSE, "none")
                          ELSE IF r.route = "GET /posts" THEN Respond(r, 200, TRUE, "list")
                          ELSE IF r.route = "GET /posts/:id"
                               THEN IF row = NoPost THEN Respond(r, 404, FALSE, "none")
                                    ELSE Respond(r, 200, TRUE, "row")
                          ELSE IF r.route = "POST /posts" THEN Respond(r, 201, TRUE, "row")
                          ELSE IF r.step = 1
                               THEN IF row = NoPost THEN Respond(r, 404, FALSE, "none")
                                    ELSE Respond(r, 403, FALSE, "none")
                          ELSE IF r.route = "PATCH /posts/:id"
                               THEN Respond(r, 200, TRUE, IF row = NoPost THEN "undefined" ELSE "row")
                          ELSE Respond(r, 200, TRUE, "none")]
                     /\ posts' = IF ok /\ r.route = "DELETE /posts/:id" /\ r.step = 2
                                 THEN [posts EXCEPT ![ThePost] = NoPost]
                                 ELSE posts
    /\ UNCHANGED <<regVars, endpointUp, cleanReport, quietReport, selVars, nReq, users, procVars>>

(* ---------------------------------------------------------------------- *)
(* /users route handlers                                                   *)
(* ---------------------------------------------------------------------- *)
UserRoutes == {"GET /users", "GET /users/:id", "POST /users",
               "PATCH /users/:id", "DELETE /users/:id"}

\* status set in the catch block of each handler (GET /users sets none)
UserCatchStatus(route) ==
    CASE route = "GET /users"     -> 200
      [] route = "GET /users/:id" -> 500
      [] OTHER                    -> 400

\* a /users request passes the auth middleware with user u, params.id = id,
\* and its handler runs up to its first await: PATCH and DELETE answer 403
\* at once for another user's id, else the statement is issued
UserReqArrive(s, route, u, id) ==
    /\ Accepting
    /\ nReq < MaxRequests
    /\ req[s].pc = "free"
    /\ \A t \in Slots : t < s => req[t].pc /= "free"
    /\ LET r == [ReqFree EXCEPT !.route = route, !.user = u, !.id = id]
           p == StmtDb(route, 1).client
       IN  IF route \in {"PATCH /users/:id", "DELETE /users/:id"} /\ u /= id
           THEN /\ req' = [req EXCEPT ![s] = Respond(r, 403, FALSE, "none")]
                /\ UNCHANGED connVars
           ELSE \E iq \in IssueQuery(idle, busy, p) :
                  /\ req' = [req EXCEPT ![s] =
                               [r EXCEPT !.pc = "stmt", !.step = 1, !.q = iq.q,
                                         !.conn = iq.conn,
                                         !.log = <<[pool |-> p, conn |-> iq.conn]>>]]
                  /\ idle' = TakeIdle(idle, p, iq.conn)
                  /\ busy' = PutBusy(busy, p, iq.conn)
    /\ nReq' = nReq + 1
    /\ UNCHANGED <<regVars, endpointUp, healthVars, selVars, posts, users, procVars>>

\* the awaited statement of a /users handler settles and the handler
\* returns
UserStmtSettled(s) ==
    /\ proc.state = "running"
    /\ req[s].route \in UserRoutes
    /\ req[s].pc = "stmt"
    /\ req[s].step > 0
    /\ req[s].q \in {"run", "rejected"}
    /\ LET r     == req[s]
           p     == ReqPool(s)
           ok    == QueryOk(p, r.q)
           found == r.id \in users
       IN  \E st \in Released(p, r.conn, ok) :
             /\ hc' = st.hc
             /\ idle' = st.idle
             /\ busy' = st.busy
             /\ req' = [st.req EXCEPT ![s] =
                  IF ~ok THEN Respond(r, UserCatchStatus(r.route), FALSE, "none")
                  ELSE IF r.route = "GET /users" THEN Respond(r, 200, TRUE, "list")
                  ELSE IF r.route = "POST /users" THEN Respond(r, 201, TRUE, "row")
                  ELSE IF ~found THEN Respond(r, 404, FALSE, "none")
                  ELSE IF r.route = "DELETE /users/:id" THEN Respond(r, 200, TRUE, "none")
                  ELSE Respond(r, 200, TRUE, "row")]
             /\ users' = IF ok /\ r.route = "DELETE /users/:id" THEN users \ {r.id} ELSE users
    /\ UNCHANGED <<regVars, endpointUp, cleanReport, quietReport, selVars, nReq, posts, procVars>>

(* ---------------------------------------------------------------------- *)
(* Session verification: lib/auth.ts, the auth middleware, GET /auth/me    *)
(* ---------------------------------------------------------------------- *)
AuthRoutes == {"GET /auth/me"}

\* what a request presents: no session cookie, the cookie of a session that
\* no longer exists, or the cookie of the session of a user
Creds == {"none", "stale", "u1"}

\* auth.api.getSession(headers): without a cookie there is nothing to look
\* up; the session of a user is read from the cookie cache or from the
\* session table; any other cookie is looked up in the session table
SessionLookups(cred) ==
    IF cred = "none" THEN {"skip"}
    ELSE IF cred \in Users THEN {"cached", "query"}
    ELSE {"query"}

\* session?.user ?? null after the lookup settled with outcome ok;
\* verifySession returns null when getSession throws
SessionUser(cred, ok) == IF ok /\ cred \in Users THEN cred ELSE "none"

\* if (!user) throw new UnauthorizedError(...) in authMiddleware
Authorized_any(user) == TRUE

Authorized(user) == user /= "none"

\* what follows getUserFromSession for request r on state (idl, bsy) of the
\* pools: GET /auth/me answers 200 with the user or 401; on the other
\* routes the middleware throws without a user (onError answers 401), else
\* the handler runs with the user up to its first await
AfterSession(r, user, idl, bsy) ==
    LET ru == [r EXCEPT !.user = user]
        p  == StmtDb(r.route, 1).client
    IN  IF r.route \in AuthRoutes
        THEN {[r |-> IF user = "none" THEN Respond(ru, 401, FALSE, "none")
                     ELSE Respond(ru, 200, TRUE, "user"),
               idle |-> idl, busy |-> bsy]}
        ELSE IF ~Authorized(user)
        THEN {[r |-> Respond(ru, 401, FALSE, "none"), idle |-> idl, busy |-> bsy]}
        ELSE IF r.route \in {"PATCH /users/:id", "DELETE /users/:id"} /\ user /= r.id
        THEN {[r |-> Respond(ru, 403, FALSE, "none"), idle |-> idl, busy |-> bsy]}
        ELSE {[r |-> [ru EXCEPT !.pc = "stmt", !.step = 1, !.q = iq.q, !.conn = iq.conn,
                                !.log = <<[pool |-> p, conn |-> iq.conn]>>],
               idle |-> TakeIdle(idl, p, iq.conn),
               busy |-> PutBusy(bsy, p, iq.conn)] : iq \in IssueQuery(idl, bsy, p)}

\* a request arrives with credentials cred and params.id = id:
\* getUserFromSession is called by GET /auth/me or by the auth middleware
AuthArrive(s, route, cred, id) ==
    /\ Accepting
    /\ nReq < MaxRequests
    /\ req[s].pc = "free"
    /\ \A t \in Slots : t < s => req[t].pc /= "free"
    /\ LET r == [ReqFree EXCEPT !.route = route, !.id = id, !.user = "none", !.cred = cred]
           p == SessionDb.client
       IN  \E how \in SessionLookups(cred) :
             IF how = "query"
             THEN \E iq \in IssueQuery(idle, busy, p) :
                    /\ req' = [req EXCEPT ![s] =
                                 [r EXCEPT !.pc = "stmt", !.step = 0, !.q = iq.q,
                                           !.conn = iq.conn, !.sess = {p}]]
                    /\ idle' = TakeIdle(idle, p, iq.conn)
                    /\ busy' = PutBusy(busy, p, iq.conn)
             ELSE \E o \in AfterSession(r, SessionUser(cred, how = "cached"), idle, busy) :
                    /\ req' = [req EXCEPT ![s] = o.r]
                    /\ idle' = o.idle
                    /\ busy' = o.busy
    /\ nReq' = nReq + 1
    /\ UNCHANGED <<regVars, endpointUp, healthVars, selVars, posts, users, procVars>>

\* the session lookup of slot s settles
SessionSettled(s) ==
    /\ proc.state = "running"
    /\ req[s].pc = "stmt"
    /\ req[s].step = 0
    /\ req[s].q \in {"run", "rejected"}
    /\ LET r  == req[s]
           p  == ReqPool(s)
           ok == QueryOk(p, r.q)
       IN  \E st \in Released(p, r.conn, ok) :
             \E o \in AfterSession([st.req[s] EXCEPT !.q = "none", !.conn = 0],
                                   SessionUser(r.cred, ok), st.idle, st.busy) :
                /\ hc' = st.hc
                /\ req' = [st.req EXCEPT ![s] = o.r]
                /\ idle' = o.idle
                /\ busy' = o.busy
    /\ UNCHANGED <<regVars, endpointUp, cleanReport, quietReport, selVars, nReq, posts, users, procVars>>

\* the response of slot s is sent
ReqRespond(s) ==
    /\ proc.state = "running"
    /\ req[s].pc = "done"
    /\ req' = [req EXCEPT ![s] = ReqFree]
    /\ UNCHANGED <<regVars, endpointUp, connVars, healthVars, selVars, nReq, posts, users, procVars>>

(* ---------------------------------------------------------------------- *)
(* closeDatabaseConnections and the signal handlers of the entry points    *)
(* ---------------------------------------------------------------------- *)
Signals == {"SIGINT", "SIGTERM"}

\* the three entry points of the repository: "full" registers
\* gracefulShutdown with process.on, "simple" registers handlers without a
\* catch with process.on, "hmr" registers handleExit with process.once
Entries == {"full", "simple", "hmr"}

\* pool.end() of pg: rejects at once when end() was already called on the
\* pool, else stays pending until every client of the pool is released
EndOutcome(p) == IF pools[p].ending THEN "rejected" ELSE "pending"

\* the pools whose end() a call of closeDatabaseConnections has invoked when
\* it reaches its await
EndInvoked_sequential == {primaryPool}

EndInvoked == {primaryPool, replicaPool}

\* the order of the promises handed to Promise.all
CloseOrder == <<primaryPool, replicaPool>>

\* try { await Promise.all([...]) } catch (error) { ...; throw error }
CloseResult_swallowed(out) ==
    IF \A p \in DOMAIN out : out[p] /= "pending" THEN "resolved" ELSE "pending"

CloseResult_race(out) ==
    IF \E p \in DOMAIN out : out[p] = "rejected" THEN "rejected"
    ELSE IF \E p \in DOMAIN out : out[p] = "ok" THEN "resolved"
    ELSE "pending"

CloseResult(out) ==
    IF \E p \in DOMAIN out : out[p] = "rejected" THEN "rejected"
    ELSE IF \A p \in DOMAIN out : out[p] = "ok" THEN "resolved"
    ELSE "pending"

\* the pools whose end() error the catch block logs and rethrows: the
\* rejection Promise.all settles with is the first one of its array
Reported(out) ==
    LET rej == {i \in 1..Len(CloseOrder) : out[CloseOrder[i]] = "rejected"}
    IN  IF rej = {} THEN {} ELSE {CloseOrder[Min(rej)]}

\* what the signal handler does once closeDatabaseConnections settled, as
\* the set of process states that can follow.  gracefulShutdown catches the
\* rejection and exits 1; the other two handlers have no catch, so the
\* rejection is left unhandled and the runtime either ends the process with
\* status 1 or reports it and goes on
AfterClose(result) ==
    IF result = "resolved" THEN {[state |-> "exited", code |-> 0]}
    ELSE IF entry = "full" THEN {[state |-> "exited", code |-> 1]}
    ELSE {[state |-> "exited", code |-> 1], proc}

\* process.once removes the listener when the signal is delivered
ListenersAfter(sig) == IF entry = "hmr" THEN listeners \ {sig} ELSE listeners

\* a call of closeDatabaseConnections at the moment it reaches its await
CloseCall ==
    LET out == [p \in {primaryPool, replicaPool} |->
                   IF p \in EndInvoked THEN EndOutcome(p) ELSE "pending"]
    IN  [ends |-> EndInvoked,
         out |-> out,
         result |-> CloseResult(out),
         reported |-> Reported(out)]

\* SIGINT or SIGTERM is delivered.  Without a listener the signal ends the
\* process (non-zero status).  With one, the handler of the entry point
\* calls closeDatabaseConnections(), which calls end() on the pools; a pool
\* that starts ending drops its idle clients.
Signal(sig) ==
    /\ proc.state = "running"
    /\ nSig < MaxSignals
    /\ nSig' = nSig + 1
    /\ IF sig \notin listeners
       THEN /\ proc' = [state |-> "killed", code |-> 1]
            /\ UNCHANGED <<pools, idle, closes, listeners, srv, hc, quietReport>>
       ELSE /\ listeners' = ListenersAfter(sig)
            /\ srv' = ServerAfterShutdown(srv)
            /\ pools' = [i \in 1..Len(pools) |->
                           IF i \in EndInvoked THEN [pools[i] EXCEPT !.ending = TRUE]
                           ELSE pools[i]]
            /\ idle' = [i \in 1..Len(pools) |-> IF i \in EndInvoked THEN {} ELSE idle[i]]
            /\ closes' = Append(closes, CloseCall)
            /\ hc' = [hc EXCEPT !.quiet = FALSE]
            /\ quietReport' = {}
            /\ proc' \in (IF CloseCall.result = "pending" THEN {proc}
                          ELSE AfterClose(CloseCall.result))
    /\ UNCHANGED <<primaryPool, replicaPool, dbPrimary, dbReplica, endpointUp, busy,
                   cleanReport, selVars, reqVars, bootVars>>

\* the entry module of "hmr" is evaluated: startServer() is called.  When
\* app.listen throws, startServer exits with code 1 or rethrows
StartServer ==
    /\ proc.state = "running"
    /\ entry = "hmr"
    /\ srv.calls < MaxStarts
    /\ \E listenOk \in BOOLEAN :
         IF listenOk \/ srv.slot /= {}
         THEN /\ srv' = startServer(srv)
              /\ listeners' = IF srv'.pairs > srv.pairs THEN Signals ELSE listeners
              /\ UNCHANGED proc
         ELSE /\ srv' = [srv EXCEPT !.calls = @ + 1]
              /\ proc' = [state |-> "exited", code |-> 1]
              /\ UNCHANGED listeners
    /\ UNCHANGED <<regVars, endpointUp, connVars, healthVars, selVars, reqVars,
                   bootVars, closes, nSig>>

\* an ending pool whose last checked-out client was released has ended
PoolDrained(p) ==
    /\ proc.state = "running"
    /\ pools[p].ending
    /\ ~pools[p].ended
    /\ busy[p] = {}
    /\ pools' = [pools EXCEPT ![p].ended = TRUE]
    /\ UNCHANGED <<primaryPool, replicaPool, dbPrimary, dbReplica, endpointUp, connVars,
                   healthVars, selVars, reqVars, procVars>>

\* the end() promises of the ended pools are fulfilled, Promise.all settles
\* and the handler that awaits the call goes on
CloseResolved ==
    /\ proc.state = "running"
    /\ \E i \in 1..Len(closes) :
         LET out == [p \in DOMAIN closes[i].out |->
                        IF closes[i].out[p] = "pending" /\ p \in closes[i].ends /\ pools[p].ended
                        THEN "ok" ELSE closes[i].out[p]]
         IN  /\ closes[i].result = "pending"
             /\ CloseResult(out) /= "pending"
             /\ closes' = [closes EXCEPT ![i].out = out, ![i].result = CloseResult(out),
                                         ![i].reported = Reported(out)]
             /\ proc' \in AfterClose(CloseResult(out))
    /\ UNCHANGED <<regVars, endpointUp, connVars, healthVars, selVars, reqVars,
                   bootVars, listeners, srv, nSig>>

(* ---------------------------------------------------------------------- *)
(* Specification                                                           *)
(* ---------------------------------------------------------------------- *)
\* module evaluation of src/config/database.ts under the environment
\* (DB_PRIMARY_PORT, DB_REPLICA_PORT)
InitOf(envPorts, entries) ==
    \E ep \in envPorts, er \in envPorts :
      LET h1 == createPool(primaryConfig(ToNumber(ep)), <<>>)
          h2 == createPool(replicaConfig(ToNumber(er)), h1)
      IN  /\ env = [DB_PRIMARY_PORT |-> ep, DB_REPLICA_PORT |-> er]
          /\ entry \in entries
          /\ listeners = (IF entry = "hmr" THEN {} ELSE Signals)
          /\ srv = ServerAtLoad(entry)
          /\ pools = h2
          /\ primaryPool = Len(h1)
          /\ replicaPool = Len(h2)
          /\ dbPrimary = drizzle(Len(h1), 1)
          /\ dbReplica = drizzle(Len(h2), 2)
          /\ endpointUp \in [Ports -> BOOLEAN]
          /\ idle = [i \in 1..Len(h2) |-> {}]
          /\ busy = [i \in 1..Len(h2) |-> {}]
          /\ hc = HcIdle
          /\ cleanReport = {}
          /\ quietReport = {}
          /\ lastSel = {}
          /\ selLog = [b \in BOOLEAN |-> {}]
          /\ req = [s \in Slots |-> ReqFree]
          /\ nReq = 0
          /\ posts = [i \in {ThePost} |-> "u1"]
          /\ users = Users
          /\ closes = <<>>
          /\ nSig = 0
          /\ proc = [state |-> "running", code |-> 0]

\* the entry point with gracefulShutdown under well-formed port settings
Init == InitOf(EnvPorts, {"full"})

\* steps of the registry, of the environment and of shutdown
RegistryStep ==
    \/ \E b \in BOOLEAN : GetDatabaseCall(b)
    \/ \E port \in Ports : EndpointChange(port)
    \/ \E sig \in Signals : Signal(sig)
    \/ \E p \in {primaryPool, replicaPool} : PoolDrained(p)
    \/ CloseResolved

EnvironmentStep ==
    \/ \E port \in Ports : EndpointChange(port)
    \/ \E sig \in Signals : Signal(sig)
    \/ \E p \in {primaryPool, replicaPool} : PoolDrained(p)
    \/ CloseResolved

HealthStep ==
    \/ \E route \in HealthRoutes : HealthRequest(route)
    \/ ProbeTimeout
    \/ PrimaryProbeSettled
    \/ ReplicaProbeSettled
    \/ HealthRespond

\* requests of the routes in rs made by the users in us
RequestStep(rs, us) ==
    \/ \E s \in Slots, route \in rs, u \in us : ReqArrive(s, route, u)
    \/ \E s \in Slots : ReqTimeout(s)
    \/ \E s \in Slots : StmtSettled(s)
    \/ \E s \in Slots : ReqRespond(s)

\* the registry under probes, requests, endpoint changes and shutdown
Next ==
    \/ RegistryStep
    \/ \E route \in {"/health"} : HealthRequest(route)
    \/ PrimaryProbeSettled
    \/ ReplicaProbeSettled
    \/ HealthRespond
    \/ \E route \in {"GET /posts/:id", "POST /posts"} : ReqArrive(1, route, "u1")
    \/ StmtSettled(1)
    \/ ReqRespond(1)

Spec == Init /\ [][Next]_vars

\* the health monitor under request traffic on both pools
NextHealth ==
    \/ EnvironmentStep
    \/ HealthStep
    \/ RequestStep({"GET /posts", "POST /posts"}, {"u1"})

SpecHealth == Init /\ [][NextHealth]_vars

\* the /posts handlers under endpoint changes and shutdown
NextPosts ==
    \/ EnvironmentStep
    \/ RequestStep(Routes, Users)

SpecPosts == Init /\ [][NextPosts]_vars

\* requests of the /users routes in rs made by the users in us
UserRequestStep(rs, us) ==
    \/ \E s \in Slots, route \in rs, u \in us, id \in us : UserReqArrive(s, route, u, id)
    \/ \E s \in Slots : UserStmtSettled(s)

\* the handlers of /posts and /users under endpoint changes
NextRoutes ==
    \/ \E port \in Ports : EndpointChange(port)
    \/ RequestStep(Routes, Users)
    \/ UserRequestStep(UserRoutes, Users)

SpecRoutes == Init /\ [][NextRoutes]_vars

\* the values of params.id that matter to a route
TargetIds(route) ==
    IF route \in {"GET /users/:id", "PATCH /users/:id", "DELETE /users/:id"} THEN Users
    ELSE {ReqFree.id}

\* requests that go through session verification
AuthStep(rs, cs) ==
    \/ \E s \in Slots, route \in rs, cred \in cs :
          \E id \in TargetIds(route) : AuthArrive(s, route, cred, id)
    \/ \E s \in Slots : SessionSettled(s)
    \/ \E s \in Slots : ReqTimeout(s)
    \/ \E s \in Slots : StmtSettled(s)
    \/ \E s \in Slots : UserStmtSettled(s)
    \/ \E s \in Slots : ReqRespond(s)

\* GET /auth/me and the protected routes under endpoint changes
NextAuth ==
    \/ \E port \in Ports : EndpointChange(port)
    \/ AuthStep(AuthRoutes \cup Routes \cup UserRoutes, Creds)

InitAuth == InitOf({"unset"}, {"full"})

SpecAuth == InitAuth /\ [][NextAuth]_vars

\* startup under any port settings, then health checks
InitStartup == InitOf(EnvPortsAny, {"full"})

NextStartup ==
    \/ \E port \in Ports : EndpointChange(port)
    \/ \E route \in HealthRoutes : HealthRequest(route)
    \/ PrimaryProbeSettled
    \/ ReplicaProbeSettled
    \/ HealthRespond

SpecStartup == InitStartup /\ [][NextStartup]_vars

\* the three entry points closing the pools under requests that hold clients
InitShutdown == InitOf({"unset"}, Entries)

NextShutdown ==
    \/ StartServer
    \/ \E sig \in Signals : Signal(sig)
    \/ \E p \in {primaryPool, replicaPool} : PoolDrained(p)
    \/ CloseResolved
    \/ RequestStep({"GET /posts", "POST /posts"}, {"u1"})

SpecShutdown == InitShutdown /\ [][NextShutdown]_vars

\* the same, with what the event loop guarantees: a pool whose clients
\* are all released ends, a settled Promise.all resumes its handler, a
\* queued statement times out and a finished handler responds.  A
\* statement that runs on a client may take forever
SpecShutdownFair ==
    /\ InitShutdown
    /\ [][NextShutdown]_vars
    /\ WF_vars(\E p \in {primaryPool, replicaPool} : PoolDrained(p))
    /\ WF_vars(CloseResolved)
    /\ WF_vars(\E s \in Slots : ReqTimeout(s))
    /\ WF_vars(\E s \in Slots : ReqRespond(s))

(* ---------------------------------------------------------------------- *)
(* Properties                                                              *)
(* ---------------------------------------------------------------------- *)
Range(f) == {f[i] : i \in DOMAIN f}

Pos(seq, e) == Min({i \in 1..Len(seq) : seq[i] = e})

MultiStmtRoutes == {"PATCH /posts/:id", "DELETE /posts/:id"}

\* C1: getDatabase(isWrite) returns the primary handle when isWrite is true
\* and the replica handle otherwise, can be called in every state of the
\* running process, and a call changes nothing of the pools.
C1_SelectByFlag ==
    /\ [](/\ \A c \in lastSel :
               /\ c.result = (IF c.arg THEN dbPrimary ELSE dbReplica)
               /\ c.result.client = (IF c.arg THEN primaryPool ELSE replicaPool)
          /\ proc.state = "running" => \A b \in BOOLEAN : ENABLED GetDatabaseCall(b))
    /\ [][lastSel' /= lastSel => UNCHANGED <<regVars, connVars>>]_vars

C1_Witness ==
    /\ \E c \in lastSel : c.arg /\ c.result = dbPrimary
    /\ selLog[FALSE] = {dbReplica}
    /\ pools[primaryPool].ending

\* C2: every statement of PATCH /posts/:id and DELETE /posts/:id is
\* executed against the pool of getDatabase(true), the primary pool; none
\* of them reaches the replica pool.
C2_MultiStatementOnPrimary ==
    \A s \in Slots :
      req[s].pc /= "free" /\ req[s].route \in MultiStmtRoutes =>
        \A i \in 1..Len(req[s].log) :
          /\ req[s].log[i].pool = getDatabase(TRUE).client
          /\ req[s].log[i].pool = primaryPool
          /\ req[s].log[i].pool /= replicaPool

C2_Witness ==
    \E s \in Slots :
      /\ req[s].pc = "done"
      /\ req[s].route = "PATCH /posts/:id"
      /\ Len(req[s].log) = 2
      /\ req[s].success

\* C3: a multi-statement operation (PATCH or DELETE /posts/:id) holds one
\* client of the primary pool from its first statement to its last: while
\* its second statement is pending or running it still holds the client
\* its first statement ran on.
C3_SingleHeldConnection ==
    \A s \in Slots :
      /\ req[s].pc = "stmt" /\ req[s].route \in MultiStmtRoutes
      /\ req[s].step = 2 /\ req[s].q /= "rejected"
      => 
        /\ req[s].conn /= 0
        /\ req[s].conn = req[s].log[1].conn
        /\ req[s].conn \in busy[primaryPool]

\* C4: the pools (and handles) of getDatabase(true) and getDatabase(false)
\* are distinct objects, also when both configurations have the same host
\* and port, and exactly two pools exist.
C4_DistinctPools ==
    /\ getDatabase(TRUE) /= getDatabase(FALSE)
    /\ getDatabase(TRUE).client /= getDatabase(FALSE).client
    /\ primaryPool /= replicaPool
    /\ Len(pools) = 2

C4_Witness ==
    /\ Len(pools) >= 1
    /\ pools[primaryPool].config = pools[replicaPool].config
    /\ selLog[TRUE] /= {}
    /\ selLog[FALSE] /= {}

\* C5: all calls of getDatabase with the same argument return the same
\* handle, whatever happened between them.
C5_SelectDeterministic ==
    \A b \in BOOLEAN : Cardinality(selLog[b]) <= 1

C5_Witness ==
    /\ \E c \in lastSel : c.repeated /\ ~c.arg
    /\ ~endpointUp[PoolPort(replicaPool)]
    /\ cleanReport /= {}

\* C6: when exactly one pool's probe fails, checkDatabaseHealth reports
\* that pool down and the other one up.
C6_HealthIndependence ==
    hc.pc = "done" =>
      /\ (~hc.okP /\ hc.okR => hc.results = [primary |-> FALSE, replica |-> TRUE])
      /\ (hc.okP /\ ~hc.okR => hc.results = [primary |-> TRUE, replica |-> FALSE])
      /\ hc.response.status /= 0
      /\ hc.response.primary /= "absent"

C6_Witness ==
    hc.pc = "done" /\ ~hc.okP /\ hc.okR /\ ~pools[primaryPool].ending

\* C7: every call of checkDatabaseHealth has issued the probe on both
\* pools when it returns, whatever the outcome of each probe.
C7_BothProbesAttempted ==
    hc.pc = "done" =>
      {"issuePrimary", "settlePrimary", "issueReplica", "settleReplica"} \subseteq Range(hc.events)

C7_Witness ==
    hc.pc = "done" /\ ~hc.okP /\ ~hc.okR /\ "issueReplica" \in Range(hc.events)

\* C8: within one checkDatabaseHealth call the replica probe is issued
\* before the primary probe has settled.
C8_ProbesConcurrent ==
    hc.pc = "done" =>
      /\ "issueReplica" \in Range(hc.events)
      /\ "settlePrimary" \in Range(hc.events)
      /\ Pos(hc.events, "issueReplica") < Pos(hc.events, "settlePrimary")

\* C9 as stated: while no endpoint changes its up/down state, every call
\* of checkDatabaseHealth returns the report of the call before it.
C9_SameReportWhileEndpointsUnchanged ==
    hc.pc = "done" => \A r \in cleanReport : hc.results = r

\* C9 amended: while no endpoint changes its up/down state, no pool is
\* closed and no probe is rejected by the connection timeout of its pool,
\* every call of checkDatabaseHealth returns the report of the call before
\* it.
C9_SameReportWhileQuiet ==
    hc.pc = "done" => \A r \in quietReport : hc.results = r

C9_Witness ==
    /\ hc.pc = "done"
    /\ hc.quiet
    /\ quietReport = {[primary |-> TRUE, replica |-> FALSE]}
    /\ hc.results = [primary |-> TRUE, replica |-> FALSE]

\* C10: a health endpoint answers 200 with success true exactly when the
\* report has both pools up, else 503 with success false (also when the
\* probe call throws), and the body carries the status of each pool
\* whenever there is a report.
C10_HealthStatus ==
    /\ hc.pc = "done" =>
         LET r == hc.response
             bothUp == hc.results.primary /\ hc.results.replica
         IN  /\ r.status \in {200, 503}
             /\ r.status = 200 <=> bothUp
             /\ r.success = bothUp
             /\ r.primary = Connected(hc.results.primary)
             /\ r.replica = Connected(hc.results.replica)
    /\ \A route \in HealthRoutes :
         LET t == HealthHandler(route, [threw |-> TRUE, report |-> HcIdle.results])
         IN  t.status = 503 /\ ~t.success

C10_Witness ==
    /\ hc.pc = "done"
    /\ hc.route = "/health"
    /\ hc.response.status = 503
    /\ hc.results = [primary |-> TRUE, replica |-> FALSE]

\* C11: a call of closeDatabaseConnections has invoked end() on both pools
\* when it awaits; while one pool is still draining or its end() was
\* rejected, the other pool has started closing all the same
C11_BothEndsStarted ==
    \A i \in 1..Len(closes) :
        /\ closes[i].ends = {primaryPool, replicaPool}
        /\ \A p \in {primaryPool, replicaPool} : pools[p].ending

\* the primary pool is kept from ending by a checked-out client while the
\* replica pool has ended
C11_Witness ==
    /\ Len(closes) = 1
    /\ closes[1].result = "pending"
    /\ busy[primaryPool] /= {}
    /\ ~pools[primaryPool].ended
    /\ pools[replicaPool].ended

\* C12: a call of closeDatabaseConnections in which end() of a pool was
\* rejected is rejected, with the error of a pool whose end() was rejected,
\* and is never resolved; a call is resolved only when end() of both pools
\* was fulfilled, both pools having ended
C12_RejectsOnFailure ==
    \A i \in 1..Len(closes) :
        LET c == closes[i]
        IN  /\ (\E p \in DOMAIN c.out : c.out[p] = "rejected") =>
                  /\ c.result = "rejected"
                  /\ c.reported /= {}
                  /\ \A p \in c.reported : c.out[p] = "rejected"
            /\ c.result = "resolved" =>
                  \A p \in {primaryPool, replicaPool} : c.out[p] = "ok" /\ pools[p].ended

\* a second signal calls closeDatabaseConnections while the pools are
\* ending: end() is rejected and so is the call
C12_Witness ==
    /\ Len(closes) = 2
    /\ closes[2].out[primaryPool] = "rejected"
    /\ closes[2].result = "rejected"

\* C13: when end() of both pools is rejected in one call of
\* closeDatabaseConnections, the errors of both pools are logged or rethrown
C13_BothFailuresReported ==
    \A i \in 1..Len(closes) :
        (\A p \in {primaryPool, replicaPool} : closes[i].out[p] = "rejected") =>
            closes[i].reported = {primaryPool, replicaPool}

\* C14: a process that exits after a call of closeDatabaseConnections was
\* rejected exits with a non-zero code, and a process that exits with code
\* 0 does so after a call of closeDatabaseConnections was resolved, in each
\* of the entry points
C14_ExitCodeReflectsClose ==
    proc.state /= "running" =>
        /\ (\E i \in 1..Len(closes) : closes[i].result = "rejected") => proc.code /= 0
        /\ proc.code = 0 => \E i \in 1..Len(closes) : closes[i].result = "resolved"

\* C15: once a call of closeDatabaseConnections is resolved, both pools
\* have ended and hold no checked-out and no idle client
C15_ClosedAfterResolve ==
    \A i \in 1..Len(closes) :
        closes[i].result = "resolved" =>
            \A p \in {primaryPool, replicaPool} :
                pools[p].ended /\ busy[p] = {} /\ idle[p] = {}

\* the call is resolved although the replica endpoint was unreachable all
\* along, after requests were served
C15_Witness ==
    /\ Len(closes) >= 1
    /\ closes[1].result = "resolved"
    /\ ~Reachable(replicaPool)
    /\ Reachable(primaryPool)
    /\ nReq > 0

\* C16: a pool that started closing never reopens, and once
\* closeDatabaseConnections has been called no call of getDatabase returns
\* a handle
C16_NoSelectAfterClose ==
    /\ [][\A p \in {primaryPool, replicaPool} :
            /\ pools[p].ending => pools'[p].ending
            /\ pools[p].ended => pools'[p].ended]_vars
    /\ [](closes /= <<>> => \A b \in BOOLEAN : ~ENABLED GetDatabaseCall(b))

\* number of calls of closeDatabaseConnections that invoked end() on pool p
EndCalls(p) == Cardinality({i \in 1..Len(closes) : p \in closes[i].ends})

\* C17: whatever signals are delivered, end() is invoked at most once on
\* each pool
C17_EndAtMostOnce ==
    \A p \in {primaryPool, replicaPool} : EndCalls(p) <= 1

\* C18: once a signal has started shutdown, the process eventually exits,
\* also when a request keeps a client checked out
C18_ShutdownEnds == (closes /= <<>>) ~> (proc.state /= "running")

IsGet(route) == route \in {"GET /posts", "GET /posts/:id", "GET /users", "GET /users/:id"}

\* C19: every statement issued by a GET handler of /users or /posts was
\* issued on the replica pool and every statement issued by a POST, PATCH
\* or DELETE handler on the primary pool, so no statement of a writing
\* handler reaches the replica pool
C19_RoutesByMethod ==
    \A s \in Slots :
        req[s].pc /= "free" =>
            \A k \in 1..Len(req[s].log) :
                /\ IsGet(req[s].route) => req[s].log[k].pool = replicaPool
                /\ ~IsGet(req[s].route) =>
                      req[s].log[k].pool = primaryPool /\ req[s].log[k].pool /= replicaPool

\* a GET of /users answered from the replica pool while a PATCH of /posts
\* has issued its second statement
C19_Witness ==
    \E s \in Slots, t \in Slots :
        /\ req[s].route = "GET /users/:id"
        /\ req[s].pc = "done"
        /\ req[s].status = 200
        /\ Len(req[s].log) = 1
        /\ req[t].route = "PATCH /posts/:id"
        /\ Len(req[t].log) = 2

\* a port setting that is present but is not a TCP port number
Malformed(v) == v /= "unset" /\ ToNumber(v) \notin 1..65535

\* C20: under a malformed DB_PRIMARY_PORT or DB_REPLICA_PORT the process
\* creates no pool and serves no traffic
C20_MalformedConfigFatal ==
    (Malformed(env.DB_PRIMARY_PORT) \/ Malformed(env.DB_REPLICA_PORT)) =>
        /\ pools = <<>>
        /\ hc.pc = "idle"

\* a report that has a pool down, being answered or last answered
DegradedReport ==
    \/ hc.pc = "done" /\ ~(hc.results.primary /\ hc.results.replica)
    \/ \E r \in cleanReport : ~(r.primary /\ r.replica)

\* C21: no step of a health check ends the process or touches the
\* registry; while a report has a pool down and no shutdown was asked for,
\* the process runs, no pool is closing and getDatabase returns the handle
\* of either pool; a statement running on a reachable pool still succeeds
C21_ProbeFailureNonFatal ==
    /\ [][hc'.pc /= hc.pc => UNCHANGED <<regVars, procVars>>]_vars
    /\ [](DegradedReport /\ closes = <<>> =>
            /\ proc.state = "running"
            /\ \A p \in {primaryPool, replicaPool} : ~pools[p].ending
            /\ \A b \in BOOLEAN : ENABLED GetDatabaseCall(b)
            /\ getDatabase(TRUE) = dbPrimary /\ getDatabase(FALSE) = dbReplica)
    /\ [][\A s \in Slots :
            (/\ req[s].pc = "stmt" /\ req[s].q = "run" /\ req[s].route = "POST /posts"
             /\ Reachable(primaryPool) /\ req'[s].pc = "done") => req'[s].status = 201]_vars

\* the last report had the replica pool down; since then no endpoint
\* changed, getDatabase(false) returned the replica handle and a POST was
\* served by the primary pool
C21_Witness ==
    /\ proc.state = "running"
    /\ hc.pc = "idle"
    /\ cleanReport = {[primary |-> TRUE, replica |-> FALSE]}
    /\ \E c \in lastSel : ~c.arg /\ c.result = dbReplica
    /\ req[1].pc = "done" /\ req[1].route = "POST /posts" /\ req[1].status = 201

\* C22: the session lookup of GET /auth/me is issued on the replica pool
\* and the request issues no statement on the primary pool
C22_SessionLookupOnReplica ==
    \A s \in Slots :
        (req[s].pc /= "free" /\ req[s].route \in AuthRoutes) =>
            /\ req[s].sess \subseteq {replicaPool}
            /\ primaryPool \notin req[s].sess
            /\ \A k \in 1..Len(req[s].log) : req[s].log[k].pool /= primaryPool

\* C23: on the /users and /posts routes a request whose session
\* verification yields no user is answered 401 without a statement of the
\* handler, and a handler has issued statements or answered only with a
\* user in its context
C23_NoHandlerWithoutUser ==
    \A s \in Slots :
        (req[s].pc /= "free" /\ req[s].route \in Routes \cup UserRoutes) =>
            /\ (req[s].pc = "done" /\ req[s].user = "none") =>
                   req[s].status = 401 /\ req[s].log = <<>>
            /\ (req[s].step > 0 \/ req[s].log /= <<>>) => req[s].user \in Users
            /\ (req[s].pc = "done" /\ req[s].status /= 401) => req[s].user \in Users

\* a DELETE /posts/:id whose session lookup found no session is answered
\* 401 with no statement of the handler
C23_Witness ==
    \E s \in Slots :
        /\ req[s].route = "DELETE /posts/:id"
        /\ req[s].cred = "stale"
        /\ req[s].sess /= {}
        /\ req[s].pc = "done"
        /\ req[s].status = 401
        /\ req[s].log = <<>>

PostWrites == {"PATCH /posts/:id", "DELETE /posts/:id"}
UserWrites == {"PATCH /users/:id", "DELETE /users/:id"}

RunningOn(p) ==
    {req[s].conn : s \in {t \in Slots : req[t].pc = "stmt" /\ req[t].q = "run" /\ ReqPool(t) = p}}
    \cup (IF hc.pc \in {"primary", "replica"} /\ hc.q = "run" /\ HcPool = p THEN {hc.conn} ELSE {})

\* C25: the checked-out clients of a pool are those of the statements that
\* are running on it, never more than the maximum of the pool; when no
\* request and no probe is in flight no client is checked out
C25_CheckoutsReleased ==
    \A p \in {primaryPool, replicaPool} :
        /\ busy[p] = RunningOn(p)
        /\ Cardinality(busy[p]) <= pools[p].max
        /\ Cardinality(busy[p] \cup idle[p]) <= pools[p].max
        /\ ((\A s \in Slots : req[s].pc \in {"free", "done"}) /\ hc.pc \in {"idle", "done"}) =>
               busy[p] = {}

\* both requests are over, one of them after its statement ran on a client
\* and failed, and no client is checked out
C25_Witness ==
    /\ nReq = MaxRequests
    /\ \A s \in Slots : req[s].pc \in {"free", "done"}
    /\ \E s \in Slots :
          /\ req[s].pc = "done" /\ req[s].status = 400
          /\ req[s].log /= <<>> /\ req[s].log[Len(req[s].log)].conn /= 0
    /\ \A p \in {primaryPool, replicaPool} : busy[p] = {}

\* C26: at most one server listens, at most one was created and at most
\* one pair of signal handlers registered; once startServer was called,
\* exactly one server was created and one pair registered, unless the
\* first listen failed and ended the process
C26_SingleServer ==
    /\ Cardinality(srv.listening) <= 1
    /\ srv.created <= 1
    /\ srv.pairs <= 1
    /\ srv.calls > 0 =>
          \/ srv.created = 1 /\ srv.pairs = 1 /\ srv.slot = {1}
          \/ srv.created = 0 /\ proc = [state |-> "exited", code |-> 1]

\* startServer was called again with a server in the global slot
C26_Witness ==
    /\ entry = "hmr"
    /\ srv.calls >= 2
    /\ srv.created = 1
    /\ srv.listening = {1}

\* C27: a PATCH /posts/:id answered with success true carries the updated
\* post row as its data
C27_PatchReturnsRow ==
    \A s \in Slots :
        (req[s].pc = "done" /\ req[s].route = "PATCH /posts/:id" /\ req[s].success) =>
            req[s].data = "row"

\* C28: once closeDatabaseConnections has been called the server accepts
\* no request, and no request handler issues a statement on a pool that is
\* closing or closed
C28_NoStatementOnClosingPool ==
    /\ [](closes /= <<>> => ~Accepting)
    /\ [][\A s \in Slots :
            (/\ req'[s].pc = "stmt"
             /\ req[s].pc /= "stmt" \/ req'[s].step /= req[s].step) =>
                ~pools[StmtDb(req'[s].route, req'[s].step).client].ending]_vars

\* C29: every response with success false has an error status
C29_FailureHasErrorStatus ==
    \A s \in Slots :
        (req[s].pc = "done" /\ ~req[s].success) => req[s].status >= 400

\* C30: a call of checkDatabaseHealth made once closeDatabaseConnections
\* was called has both of its probes rejected and returns primary false
\* and replica false without throwing: the health endpoint answers 503
\* with both pools disconnected
C30_HealthAfterClose ==
    hc.closing =>
        /\ hc.pc \in {"primary", "replica"} => hc.q = "rejected"
        /\ hc.pc = "done" =>
              /\ hc.results = [primary |-> FALSE, replica |-> FALSE]
              /\ hc.response.status = 503
              /\ hc.response.primary = "disconnected"
              /\ hc.response.replica = "disconnected"

\* the call was made after both pools had ended, with both endpoints up
C30_Witness ==
    /\ hc.pc = "done"
    /\ hc.closing
    /\ \A p \in {primaryPool, replicaPool} : pools[p].ended /\ Reachable(p)
    /\ hc.results = [primary |-> FALSE, replica |-> FALSE]

====
